---- MODULE Spec2Model ----
(***************************************************************************)
(* Model of src/es.rs: the Elasticsearch scroll client `Es`.               *)
(*                                                                         *)
(*   search            - parse the query, send one search request          *)
(*   scroll            - send one continuation request                     *)
(*   scroll_with_retry - the bounded retry loop around scroll              *)
(*   clear_scroll      - send one release request                          *)
(*   extract_search_result - pure decoding of a response body              *)
(*                                                                         *)
(* JSON values (serde_json::Value) are tagged records; the accessors       *)
(* (Index, is_object, as_str, as_array, as_u64) are modelled by what       *)
(* serde_json does on each shape.                                          *)
(***************************************************************************)
EXTENDS Integers, Sequences, FiniteSets, TLC

VARIABLES
    query,      \* Es.query: the raw query text (a token sequence)
    pc,         \* position of the single task: idle / *_wait / swr_loop / aborted
    op,         \* the call in progress (or the last one): name and arguments
    retries,    \* scroll_with_retry's local `retries`
    inflight,   \* requests sent and not yet answered
    trace,      \* observable events of the current call, in order
    ret,        \* value returned by the last completed call
    body,       \* extract_search_result's argument (pure-function harness)
    out,        \* extract_search_result's outcome  (pure-function harness)
    session     \* the export session driving the client, if any

vars == <<query, pc, op, retries, inflight, trace, ret, body, out, session>>

(***************************************************************************)
(* Bounds                                                                  *)
(***************************************************************************)
MaxRetries == 2
MaxBatch == 2
MaxDocs == 5

(***************************************************************************)
(* Program constants                                                       *)
(***************************************************************************)
I32Max == 2147483647
I32Min == (-I32Max) - 1
SCROLL_DURATION == "10m"

(***************************************************************************)
(* serde_json::Value                                                       *)
(***************************************************************************)
Null == [t |-> "null"]
Str(s) == [t |-> "str", s |-> s]
Num(n) == [t |-> "int", n |-> n]
Float == [t |-> "float"]
Arr(a) == [t |-> "arr", a |-> a]
Obj(m) == [t |-> "obj", m |-> m]

\* An object from a set of <<key, value>> pairs with distinct keys.
Members(ps) == [k \in {p[1] : p \in ps} |-> (CHOOSE p \in ps : p[1] = k)[2]]

None == [some |-> FALSE]
Some(x) == [some |-> TRUE, x |-> x]

\* impl Index<&str> for Value: a missing key, or indexing a non-object, is Null.
Index(v, key) == IF v.t = "obj" /\ key \in DOMAIN v.m THEN v.m[key] ELSE Null

is_object(v) == v.t = "obj"
as_str(v) == IF v.t = "str" THEN Some(v.s) ELSE None
as_array(v) == IF v.t = "arr" THEN Some(v.a) ELSE None
\* Only a non-negative integer number is a u64; negatives and floats are not.
as_u64(v) == IF v.t = "int" /\ v.n >= 0 THEN Some(v.n) ELSE None
\* A default that replaces the value found.
unwrap_or_always_default(o, d) == d

unwrap_or(o, d) == IF o.some THEN o.x ELSE d

(***************************************************************************)
(* Results: Ok(value), Err(error), or a panic (Option::unwrap on None).    *)
(***************************************************************************)
Ok(x) == [k |-> "ok", v |-> x]
Err(e) == [k |-> "err", e |-> e]
Panic == [k |-> "panic"]
NoResult == [k |-> "none"]

\* Box<dyn Error> built from a &str
BoxedStr(s) == [kind |-> "message", msg |-> s]

(***************************************************************************)
(* extract_search_result                                                   *)
(***************************************************************************)
\* An extraction that unwraps the token and the hits before it looks at `error`.
extract_search_result_error_last(response_body) ==
    LET scroll_id == as_str(Index(response_body, "_scroll_id"))
        hits == as_array(Index(Index(response_body, "hits"), "hits"))
        total == unwrap_or(as_u64(Index(Index(Index(response_body, "hits"), "total"), "value")), 0)
    IN  IF ~scroll_id.some THEN Panic
        ELSE IF ~hits.some THEN Panic
        ELSE IF is_object(Index(response_body, "error")) THEN Err(BoxedStr("Error in response"))
        ELSE Ok([scroll_id |-> scroll_id.x, hits |-> hits.x, total |-> total])

\* Lines 96-107.
extract_search_result(response_body) ==
    LET scroll_id == as_str(Index(response_body, "_scroll_id"))
        hits == as_array(Index(Index(response_body, "hits"), "hits"))
        total == unwrap_or(as_u64(Index(Index(Index(response_body, "hits"), "total"), "value")), 0)
    IN  IF is_object(Index(response_body, "error")) THEN Err(BoxedStr("Error in response"))
        ELSE IF ~scroll_id.some THEN Panic
        ELSE IF ~hits.some THEN Panic
        ELSE Ok([scroll_id |-> scroll_id.x, hits |-> hits.x, total |-> total])

\* The diagnostic extract_search_result prints (line 98), if any.
extract_prints(response_body) ==
    IF is_object(Index(response_body, "error"))
    THEN <<[ev |-> "print", what |-> "Error", payload |-> Index(response_body, "error")]>>
    ELSE <<>>

(***************************************************************************)
(* Response bodies the backend can put on the wire.  Every field is        *)
(* optional and may have an unexpected shape.                              *)
(***************************************************************************)
Absent == [t |-> "absent"]      \* marks a key left out of the object

Field(key, v) == IF v = Absent THEN {} ELSE {<<key, v>>}

ErrorFields == {Absent, Null, Str(""), Str("boom"), Obj(Members({})),
                Obj(Members({<<"type", Str("x")>>}))}
ScrollIdFields == {Absent, Str(""), Str("s1"), Str("s2"), Num(7)}
HitArrays == {<<>>, <<Str("d1")>>, <<Str("d1"), Str("d2")>>, <<Str("d2"), Str("d1")>>}
HitsHitsFields == {Absent, Str("none")} \cup {Arr(a) : a \in HitArrays}
ValueFields == {Absent, Num(0), Num(5), Num(-1), Float, Str("5")}
TotalFields == {Absent} \cup {Obj(Members(Field("value", v))) : v \in ValueFields}
HitsFields == {Absent, Null} \cup
              {Obj(Members(Field("hits", h) \cup Field("total", t))) :
                   h \in HitsHitsFields, t \in TotalFields}

Responses ==
    {Obj(Members(Field("error", e) \cup Field("_scroll_id", s) \cup Field("hits", h))) :
         e \in ErrorFields, s \in ScrollIdFields, h \in HitsFields}

(***************************************************************************)
(* The query text and serde_json::from_str.  The text is a sequence of     *)
(* lexical tokens: punctuation, literals (strings, numbers) and bare       *)
(* words, which no JSON grammar rule accepts.                              *)
(***************************************************************************)
P(c) == [p |-> c]
L(v) == [lit |-> v]
W(w) == [word |-> w]

IsP(tok, c) == "p" \in DOMAIN tok /\ tok.p = c
IsLit(tok) == "lit" \in DOMAIN tok
IsKey(tok) == IsLit(tok) /\ tok.lit.t = "str"

Fail == [pos |-> 0]
At(pos, val) == [pos |-> pos, val |-> val]

\* Map::insert: a repeated key replaces the earlier value.
Insert(ps, k, v) == {p \in ps : p[1] # k} \cup {<<k, v>>}

RECURSIVE ParseValue(_, _), ParseMembers(_, _, _), ParseElements(_, _, _)

\* Parse one value starting at token i: the position after it and the value.
ParseValue(q, i) ==
    IF i > Len(q) THEN Fail
    ELSE IF IsLit(q[i]) THEN At(i + 1, q[i].lit)
    ELSE IF IsP(q[i], "{") THEN
        IF i + 1 <= Len(q) /\ IsP(q[i + 1], "}")
        THEN At(i + 2, Obj(Members({})))
        ELSE ParseMembers(q, i + 1, {})
    ELSE IF IsP(q[i], "[") THEN
        IF i + 1 <= Len(q) /\ IsP(q[i + 1], "]")
        THEN At(i + 2, Arr(<<>>))
        ELSE ParseElements(q, i + 1, <<>>)
    ELSE Fail

ParseMembers(q, i, acc) ==
    IF i + 1 > Len(q) \/ ~IsKey(q[i]) \/ ~IsP(q[i + 1], ":") THEN Fail
    ELSE LET r == ParseValue(q, i + 2)
         IN  IF r.pos = 0 \/ r.pos > Len(q) THEN Fail
             ELSE IF IsP(q[r.pos], "}")
                  THEN At(r.pos + 1, Obj(Members(Insert(acc, q[i].lit.s, r.val))))
             ELSE IF IsP(q[r.pos], ",")
                  THEN ParseMembers(q, r.pos + 1, Insert(acc, q[i].lit.s, r.val))
             ELSE Fail

ParseElements(q, i, acc) ==
    LET r == ParseValue(q, i)
    IN  IF r.pos = 0 \/ r.pos > Len(q) THEN Fail
        ELSE IF IsP(q[r.pos], "]") THEN At(r.pos + 1, Arr(Append(acc, r.val)))
        ELSE IF IsP(q[r.pos], ",") THEN ParseElements(q, r.pos + 1, Append(acc, r.val))
        ELSE Fail

\* serde_json::from_str: one value, then end of input.
from_str(q) ==
    LET r == ParseValue(q, 1)
    IN  IF r.pos = Len(q) + 1 THEN Ok(r.val) ELSE Err([kind |-> "json_syntax"])

Queries ==
    { <<P("{"), L(Str("match_all")), P(":"), P("{"), P("}"), P("}")>>,     \* {"match_all": {}}
      <<P("{"), L(Str("a")), P(":"), L(Num(1)), P(","),
              L(Str("a")), P(":"), P("["), L(Num(2)), P("]"), P("}")>>,    \* {"a": 1, "a": [2]}
      <<P("{"), W("not"), W("json")>>,                                     \* {not json
      <<>>,                                                                \* empty text
      <<P("["), L(Num(1)), P(","), P("]")>> }                              \* [1,]

(***************************************************************************)
(* One round trip: what `send().await?` and `response.json().await?`       *)
(* can produce.                                                            *)
(***************************************************************************)
TransportErrors == {"timeout", "connect"}

WireOutcomes ==
    {[o |-> "transport", cause |-> c] : c \in TransportErrors}
        \cup {[o |-> "not_json"]}
        \cup {[o |-> "json", body |-> b] : b \in Responses}

\* Lines 45-50 and 73-78: `?` on send, `?` on json(), then extraction.
response_result(w) ==
    IF w.o = "transport" THEN Err([kind |-> "transport", cause |-> w.cause])
    ELSE IF w.o = "not_json" THEN Err([kind |-> "decode"])
    ELSE extract_search_result(w.body)

response_prints(w) == IF w.o = "json" THEN extract_prints(w.body) ELSE <<>>

\* Every (result, printed diagnostics) pair a search or scroll round trip can end in.
RoundTrips == {[res |-> response_result(w), prints |-> response_prints(w)] : w \in WireOutcomes}

Tokens == {"s1", "s2"}
RetryBudgets == {I32Min, -1} \cup (0..MaxRetries)
\* Attempts explored within one scroll_with_retry call (binds only for budgets < 0).
MaxAttempts == MaxRetries + 2

Request(r) == [ev |-> "request", req |-> r]
Result(r) == [ev |-> "result", res |-> r]
Retrying(e) == [ev |-> "print", what |-> "Retrying scroll due to error", payload |-> e]

IsRequest(e) == e.ev = "request"
IsResult(e) == e.ev = "result"
IsRetrying(e) == e.ev = "print" /\ e.what = "Retrying scroll due to error"

Requests == SelectSeq(trace, IsRequest)
Results == SelectSeq(trace, IsResult)
Reports == SelectSeq(trace, IsRetrying)

\* No export session: the client is called directly.
NoSession == [phase |-> "none"]

(***************************************************************************)
(* Initial state: an Es built by Es::new, no call made yet.                *)
(***************************************************************************)
Init ==
    /\ query \in Queries
    /\ pc = "idle"
    /\ op = [name |-> "none"]
    /\ retries = 0
    /\ inflight = <<>>
    /\ trace = <<>>
    /\ ret = NoResult
    /\ body = Null
    /\ out = NoResult
    /\ session = NoSession

(***************************************************************************)
(* search                                                                  *)
(***************************************************************************)
SearchRequest(batch_size, parsed_query) ==
    [kind |-> "search", scroll |-> SCROLL_DURATION, timeout |-> "10s",
     size |-> batch_size, body |-> parsed_query]

\* A search that sends the request before looking at the parse result.
search_sends_first(batch_size) ==
    /\ pc = "idle"
    /\ op' = [name |-> "search", batch_size |-> batch_size]
    /\ LET parsed_query == from_str(query)
           sent == SearchRequest(batch_size, IF parsed_query.k = "err" THEN Null ELSE parsed_query.v)
       IN  /\ ret' = NoResult
           /\ pc' = "search_wait"
           /\ trace' = <<Request(sent)>>
           /\ inflight' = Append(inflight, sent)
    /\ UNCHANGED <<session, query, retries, body, out>>

\* Lines 37-46: parse the query, `?` on failure, else send the search request.
search(batch_size) ==
    /\ pc = "idle"
    /\ op' = [name |-> "search", batch_size |-> batch_size]
    /\ LET parsed_query == from_str(query)
       IN  IF parsed_query.k = "err"
           THEN /\ ret' = parsed_query
                /\ pc' = "idle"
                /\ trace' = <<>>
                /\ inflight' = inflight
           ELSE /\ ret' = NoResult
                /\ pc' = "search_wait"
                /\ trace' = <<Request(SearchRequest(batch_size, parsed_query.v))>>
                /\ inflight' = Append(inflight, SearchRequest(batch_size, parsed_query.v))
    /\ UNCHANGED <<session, query, retries, body, out>>

\* A search that sends its request again after a failed round trip.
search_complete_retries(rts) ==
    /\ pc = "search_wait"
    /\ \E rt \in rts :
        IF rt.res.k = "err" /\ Len(Requests) < 2
        THEN /\ trace' = trace \o rt.prints \o <<Result(rt.res), Request(inflight[1])>>
             /\ inflight' = inflight
             /\ pc' = "search_wait" /\ ret' = ret
        ELSE /\ trace' = trace \o rt.prints \o <<Result(rt.res)>>
             /\ inflight' = Tail(inflight)
             /\ IF rt.res.k = "panic"
                THEN pc' = "aborted" /\ ret' = ret
                ELSE pc' = "idle" /\ ret' = rt.res
    /\ UNCHANGED <<session, query, op, retries, body, out>>

\* Lines 46-50: the search round trip ends in one of `rts`.
search_complete(rts) ==
    /\ pc = "search_wait"
    /\ \E rt \in rts :
        /\ trace' = trace \o rt.prints \o <<Result(rt.res)>>
        /\ inflight' = Tail(inflight)
        /\ IF rt.res.k = "panic"
           THEN pc' = "aborted" /\ ret' = ret
           ELSE pc' = "idle" /\ ret' = rt.res
    /\ UNCHANGED <<session, query, op, retries, body, out>>

search_response == search_complete(RoundTrips)

(***************************************************************************)
(* scroll (called directly)                                                *)
(***************************************************************************)
ScrollRequest(scroll_id) ==
    [kind |-> "scroll", scroll_id |-> scroll_id, scroll |-> SCROLL_DURATION]

scroll(scroll_id) ==
    /\ pc = "idle"
    /\ op' = [name |-> "scroll", scroll_id |-> scroll_id]
    /\ ret' = NoResult
    /\ pc' = "scroll_wait"
    /\ trace' = <<Request(ScrollRequest(scroll_id))>>
    /\ inflight' = Append(inflight, ScrollRequest(scroll_id))
    /\ UNCHANGED <<session, query, retries, body, out>>

scroll_response ==
    /\ pc = "scroll_wait"
    /\ op.name = "scroll"
    /\ \E rt \in RoundTrips :
        /\ trace' = trace \o rt.prints \o <<Result(rt.res)>>
        /\ inflight' = Tail(inflight)
        /\ IF rt.res.k = "panic"
           THEN pc' = "aborted" /\ ret' = ret
           ELSE pc' = "idle" /\ ret' = rt.res
    /\ UNCHANGED <<session, query, op, retries, body, out>>

(***************************************************************************)
(* scroll_with_retry                                                       *)
(***************************************************************************)
scroll_with_retry(scroll_id, max_retries) ==
    /\ pc = "idle"
    /\ op' = [name |-> "scroll_with_retry", scroll_id |-> scroll_id, max_retries |-> max_retries]
    /\ retries' = max_retries
    /\ ret' = NoResult
    /\ pc' = "swr_loop"
    /\ trace' = <<>>
    /\ UNCHANGED <<session, query, inflight, body, out>>

\* A retry that sends a token other than the caller's.
attempt_token_stale(scroll_id) == IF scroll_id = "s1" THEN "s2" ELSE "s1"

\* Line 56: the token each attempt is issued with, scroll_id.clone().
attempt_token(scroll_id) == scroll_id

\* An attempt that does not wait for the previous one to complete.
swr_attempt_overlapping ==
    /\ pc \in {"swr_loop", "scroll_wait"}
    /\ Len(Requests) < MaxAttempts
    /\ pc' = "scroll_wait"
    /\ trace' = Append(trace, Request(ScrollRequest(attempt_token(op.scroll_id))))
    /\ inflight' = Append(inflight, ScrollRequest(attempt_token(op.scroll_id)))
    /\ UNCHANGED <<session, query, op, retries, ret, body, out>>

\* Line 56, the call: self.scroll(scroll_id.clone()) sends one continuation request.
swr_attempt ==
    /\ pc = "swr_loop"
    /\ Len(Requests) < MaxAttempts
    /\ pc' = "scroll_wait"
    /\ trace' = Append(trace, Request(ScrollRequest(attempt_token(op.scroll_id))))
    /\ inflight' = Append(inflight, ScrollRequest(attempt_token(op.scroll_id)))
    /\ UNCHANGED <<session, query, op, retries, ret, body, out>>

\* A returned result that loses the batch.
ok_arm_drops_batch(result) == Ok([result EXCEPT !.hits = <<>>])

\* Line 57: Ok(result) => return Ok(result)
ok_arm(result) == Ok(result)

\* A budget test that is off by one.
exhausted_off_by_one(r) == r = 1

\* Line 59: if retries == 0
exhausted(r) == r = 0

\* A give-up path that replaces the cause.
give_up_wrapped(e) == Err(BoxedStr("Retries exhausted"))

\* Line 60: return Err(e)
give_up(e) == Err(e)

\* A retry that reports nothing.
report_silent(e) == <<>>

\* Line 62: println!("Retrying scroll due to error: {}", e)
report(e) == <<Retrying(e)>>

\* Line 63: `retries -= 1` on an i32.  At i32::MIN a build with overflow
\* checks panics and a build without them wraps to i32::MAX.
decrement(r) ==
    IF r > I32Min THEN {[k |-> "ok", v |-> r - 1]}
    ELSE {[k |-> "ok", v |-> I32Max], Panic}

\* A match that takes a failure with budget left for the end of the stream.
swr_match_swallows_error(result, r) ==
    IF result.k = "panic" THEN
        {[pc |-> "aborted", ret |-> NoResult, retries |-> r, prints |-> <<>>]}
    ELSE IF result.k = "ok" THEN
        {[pc |-> "idle", ret |-> ok_arm(result.v), retries |-> r, prints |-> <<>>]}
    ELSE IF exhausted(r) THEN
        {[pc |-> "idle", ret |-> give_up(result.e), retries |-> r, prints |-> <<>>]}
    ELSE
        {[pc |-> "idle", ret |-> Ok([scroll_id |-> op.scroll_id, hits |-> <<>>, total |-> 0]),
          retries |-> r, prints |-> report(result.e)]}

\* Lines 56-65: the match on the attempt's result.  The set of the possible
\* continuations: where control goes, what is returned, printed and left in `retries`.
swr_match(result, r) ==
    IF result.k = "panic" THEN
        {[pc |-> "aborted", ret |-> NoResult, retries |-> r, prints |-> <<>>]}
    ELSE IF result.k = "ok" THEN
        {[pc |-> "idle", ret |-> ok_arm(result.v), retries |-> r, prints |-> <<>>]}
    ELSE IF exhausted(r) THEN
        {[pc |-> "idle", ret |-> give_up(result.e), retries |-> r, prints |-> <<>>]}
    ELSE
        {IF d.k = "panic"
         THEN [pc |-> "aborted", ret |-> NoResult, retries |-> r, prints |-> report(result.e)]
         ELSE [pc |-> "swr_loop", ret |-> NoResult, retries |-> d.v, prints |-> report(result.e)]
             : d \in decrement(r)}

\* Line 56, the await: the attempt completes in one of `rts` and the match arm runs.
swr_complete(rts) ==
    /\ pc = "scroll_wait"
    /\ op.name = "scroll_with_retry"
    /\ \E rt \in rts :
        \E nxt \in swr_match(rt.res, retries) :
            /\ trace' = trace \o rt.prints \o <<Result(rt.res)>> \o nxt.prints
            /\ inflight' = Tail(inflight)
            /\ pc' = nxt.pc
            /\ ret' = nxt.ret
            /\ retries' = nxt.retries
    /\ UNCHANGED <<session, query, op, body, out>>

swr_response == swr_complete(RoundTrips)

(***************************************************************************)
(* clear_scroll                                                            *)
(***************************************************************************)
ClearRequest(scroll_id) == [kind |-> "clear_scroll", scroll_id |-> scroll_id]

clear_scroll(scroll_id) ==
    /\ pc = "idle"
    /\ op' = [name |-> "clear_scroll", scroll_id |-> scroll_id]
    /\ ret' = NoResult
    /\ pc' = "clear_wait"
    /\ trace' = <<Request(ClearRequest(scroll_id))>>
    /\ inflight' = Append(inflight, ClearRequest(scroll_id))
    /\ UNCHANGED <<session, query, retries, body, out>>

StatusCodes == {200, 404, 500}
is_success(status) == status >= 200 /\ status <= 299

ClearOutcomes ==
    {[o |-> "transport", cause |-> c] : c \in TransportErrors}
        \cup {[o |-> "status", code |-> c] : c \in StatusCodes}

\* A release that takes any HTTP response for a success.
clear_result_ignores_status(w) ==
    IF w.o = "transport" THEN Err([kind |-> "transport", cause |-> w.cause])
    ELSE Ok("unit")

\* Lines 87-93: `?` on send, then the status test.
clear_result(w) ==
    IF w.o = "transport" THEN Err([kind |-> "transport", cause |-> w.cause])
    ELSE IF is_success(w.code) THEN Ok("unit")
    ELSE Err(BoxedStr("Failed to clear scroll"))

\* What came back for the release request: a transport failure or a status.
Received(w) == [ev |-> "response", w |-> w]

\* Lines 87-93: the release round trip ends and its status is tested.
clear_response ==
    /\ pc = "clear_wait"
    /\ \E w \in ClearOutcomes :
        /\ trace' = trace \o <<Received(w), Result(clear_result(w))>>
        /\ ret' = clear_result(w)
    /\ inflight' = Tail(inflight)
    /\ pc' = "idle"
    /\ UNCHANGED <<session, query, op, retries, body, out>>

(***************************************************************************)
(* The client: any caller, one call at a time.                             *)
(***************************************************************************)
Next ==
    \/ \E batch_size \in 1..MaxBatch : search(batch_size)
    \/ search_response
    \/ \E scroll_id \in Tokens : scroll(scroll_id)
    \/ scroll_response
    \/ \E scroll_id \in Tokens, max_retries \in RetryBudgets :
           scroll_with_retry(scroll_id, max_retries)
    \/ swr_attempt
    \/ swr_response
    \/ \E scroll_id \in Tokens : clear_scroll(scroll_id)
    \/ clear_response

Spec == Init /\ [][Next]_vars

(***************************************************************************)
(* The export session (spec.md 2, 3, 4.2): the caller that runs search,    *)
(* then scroll_with_retry with the latest token until a batch comes back   *)
(* empty or the retries are exhausted, and then releases the cursor.  Its  *)
(* backend holds a static store of D documents; a cursor token names the   *)
(* number of documents handed out so far, and a failed continuation        *)
(* leaves the cursor where it was (spec.md 4.2).                           *)
(***************************************************************************)
StoreDocs(D) == [i \in 1..D |-> Str(ToString(i))]
CursorToken(p) == ToString(p)
CursorPosition(tok, D) ==
    IF \E p \in 0..D : CursorToken(p) = tok
    THEN CHOOSE p \in 0..D : CursorToken(p) = tok
    ELSE -1

Min(a, b) == IF a < b THEN a ELSE b

\* The page that follows position p: up to N documents, the cursor after
\* them, and the total of the whole query.
PageBody(p, N, D) ==
    Obj(Members({
        <<"_scroll_id", Str(CursorToken(Min(p + N, D)))>>,
        <<"hits", Obj(Members({
            <<"hits", Arr(SubSeq(StoreDocs(D), p + 1, Min(p + N, D)))>>,
            <<"total", Obj(Members({<<"value", Num(D)>>}))>>}))>>}))

ErrorBody(type) == Obj(Members({<<"error", Obj(Members({<<"type", Str(type)>>}))>>}))

\* The backend's answer to a request when nothing goes wrong.
BackendReply(req, N, D) ==
    IF req.kind = "search" THEN PageBody(0, req.size, D)
    ELSE IF CursorPosition(req.scroll_id, D) < 0 THEN ErrorBody("search_context_missing")
    ELSE PageBody(CursorPosition(req.scroll_id, D), N, D)

\* What can go wrong on one round trip: the transport fails, the body is not
\* JSON, the backend reports an error, or a body without the expected fields
\* comes back.
FailureOutcomes ==
    {[o |-> "transport", cause |-> c] : c \in TransportErrors}
        \cup {[o |-> "not_json"]}
        \cup {[o |-> "json", body |-> ErrorBody("x")]}
        \cup {[o |-> "json", body |-> Obj(Members({}))]}

BackendRoundTrips(req, N, D) ==
    {[res |-> response_result(w), prints |-> response_prints(w)] :
        w \in FailureOutcomes \cup {[o |-> "json", body |-> BackendReply(req, N, D)]}}

SessionInit ==
    /\ query \in Queries
    /\ pc = "idle"
    /\ op = [name |-> "none"]
    /\ retries = 0
    /\ inflight = <<>>
    /\ trace = <<>>
    /\ ret = NoResult
    /\ body = Null
    /\ out = NoResult
    /\ \E D \in 0..MaxDocs, N \in 1..MaxBatch, R \in RetryBudgets :
        session = [phase |-> "INIT", D |-> D, batch_size |-> N, max_retries |-> R,
                   queried |-> FALSE, token |-> "", delivered |-> <<>>,
                   batches |-> <<>>, retried |-> FALSE, releases |-> 0]

\* INIT: the initial query.
s_search ==
    /\ session.phase = "INIT"
    /\ op.name = "none"
    /\ search(session.batch_size)

s_search_response ==
    search_complete(BackendRoundTrips(inflight[1], session.batch_size, session.D))

\* The caller takes a batch: the new token supersedes the old one, and an
\* empty batch is exhaustion.
TakeBatch(result) ==
    [session EXCEPT !.phase = IF result.hits = <<>> THEN "EXHAUSTED" ELSE "CONTINUING",
                    !.queried = TRUE,
                    !.token = result.scroll_id,
                    !.delivered = @ \o result.hits,
                    !.batches = Append(@, Len(result.hits)),
                    !.retried = @ \/ Len(Requests) > 1]

\* INIT -> QUERIED: the search has returned; without a cursor there is no session.
s_queried ==
    /\ session.phase = "INIT"
    /\ op.name = "search" /\ pc = "idle" /\ ret # NoResult
    /\ session' = IF ret.k = "ok" THEN TakeBatch(ret.v)
                  ELSE [session EXCEPT !.phase = "NO_CURSOR"]
    /\ ret' = NoResult
    /\ UNCHANGED <<query, pc, op, retries, inflight, trace, body, out>>

\* CONTINUING: the next continuation, with the latest token.
s_continue ==
    /\ session.phase = "CONTINUING"
    /\ ret = NoResult
    /\ scroll_with_retry(session.token, session.max_retries)

s_scroll_response ==
    swr_complete(BackendRoundTrips(inflight[1], session.batch_size, session.D))

\* CONTINUING -> CONTINUING | EXHAUSTED | FAILED
s_batch ==
    /\ session.phase = "CONTINUING"
    /\ op.name = "scroll_with_retry" /\ pc = "idle" /\ ret # NoResult
    /\ session' = IF ret.k = "ok" THEN TakeBatch(ret.v)
                  ELSE [session EXCEPT !.phase = "FAILED",
                                       !.retried = @ \/ Len(Requests) > 1]
    /\ ret' = NoResult
    /\ UNCHANGED <<query, pc, op, retries, inflight, trace, body, out>>

\* EXHAUSTED | FAILED: release the cursor.
s_release ==
    /\ session.phase \in {"EXHAUSTED", "FAILED"}
    /\ op.name # "clear_scroll"
    /\ ret = NoResult
    /\ clear_scroll(session.token)

\* -> RELEASED: the release has returned; its failure is reported, not retried.
s_released ==
    /\ session.phase \in {"EXHAUSTED", "FAILED"}
    /\ op.name = "clear_scroll" /\ pc = "idle" /\ ret # NoResult
    /\ session' = [session EXCEPT !.phase = "RELEASED",
                                  !.releases = @ + Len(Requests)]
    /\ ret' = NoResult
    /\ UNCHANGED <<query, pc, op, retries, inflight, trace, body, out>>

SessionNext ==
    \/ s_search
    \/ s_search_response
    \/ s_queried
    \/ s_continue
    \/ swr_attempt
    \/ s_scroll_response
    \/ s_batch
    \/ s_release
    \/ clear_response
    \/ s_released

SessionSpec == SessionInit /\ [][SessionNext]_vars

(***************************************************************************)
(* extract_search_result on its own: every response body, decoded once.    *)
(***************************************************************************)
ExtractInit ==
    /\ query \in Queries
    /\ pc = "idle"
    /\ op = [name |-> "none"]
    /\ retries = 0
    /\ inflight = <<>>
    /\ trace = <<>>
    /\ ret = NoResult
    /\ body \in Responses
    /\ out = NoResult
    /\ session = NoSession

extract ==
    /\ out = NoResult
    /\ out' = extract_search_result(body)
    /\ trace' = extract_prints(body)
    /\ UNCHANGED <<session, query, pc, op, retries, inflight, ret, body>>

ExtractNext == extract

ExtractSpec == ExtractInit /\ [][ExtractNext]_vars

(***************************************************************************)
(* Properties of scroll_with_retry (checked under Spec)                    *)
(***************************************************************************)
InSwr == op.name = "scroll_with_retry"
Returned == pc = "idle" /\ ret # NoResult
AllFailed == \A i \in 1..Len(Results) : Results[i].res.k = "err"
LastResult == Results[Len(Results)].res
RequestPositions == {i \in 1..Len(trace) : IsRequest(trace[i])}
ReportPositions == {i \in 1..Len(trace) : IsRetrying(trace[i])}

\* C1: with a budget R >= 0 and every attempt failing, scroll_with_retry makes
\* exactly R+1 continuation attempts and then returns an error: it never makes
\* more than R+1 attempts, returns an error only after the R+1-th failure, and
\* has returned the error as soon as the R+1-th attempt has failed.
C1_ExactlyRPlusOneAttempts ==
    (InSwr /\ op.max_retries >= 0) =>
        /\ Len(Requests) <= op.max_retries + 1
        /\ (Returned /\ ret.k = "err") =>
               (AllFailed /\ Len(Requests) = op.max_retries + 1
                    /\ Len(Results) = op.max_retries + 1)
        /\ (AllFailed /\ Len(Results) = op.max_retries + 1) => (Returned /\ ret.k = "err")
        /\ (AllFailed /\ Len(Results) < op.max_retries + 1) => pc \in {"swr_loop", "scroll_wait"}

C1_Witness ==
    /\ InSwr /\ op.max_retries = MaxRetries
    /\ Returned /\ ret.k = "err"
    /\ Len(Requests) = MaxRetries + 1

\* C2: with K <= R failures followed by a success, scroll_with_retry returns
\* exactly the (token, batch, total) of the first successful attempt after
\* K+1 attempts, and a success is never followed by another attempt.
C2_ReturnsFirstSuccess ==
    InSwr =>
        /\ (Returned /\ ret.k = "ok") =>
               /\ Len(Results) >= 1 /\ Len(Requests) = Len(Results)
               /\ LastResult = ret
               /\ \A i \in 1..(Len(Results) - 1) : Results[i].res.k = "err"
               /\ op.max_retries >= 0 => Len(Results) - 1 <= op.max_retries
        /\ \A i \in 1..Len(trace) :
               (IsResult(trace[i]) /\ trace[i].res.k = "ok") =>
                   (i = Len(trace) /\ Returned /\ ret = trace[i].res)

C2_Witness ==
    /\ InSwr /\ op.max_retries = MaxRetries
    /\ Returned /\ ret.k = "ok"
    /\ Len(Requests) = MaxRetries + 1
    /\ ret.v.scroll_id # op.scroll_id /\ ret.v.hits # <<>>

\* C3: the error scroll_with_retry returns is the error of its last attempt,
\* as that attempt produced it.
C3_LastErrorUnchanged ==
    (InSwr /\ Returned /\ ret.k = "err") =>
        (Len(Results) >= 1 /\ ret = LastResult)

C3_Witness ==
    /\ InSwr /\ Returned /\ ret.k = "err"
    /\ Len(Results) >= 2
    /\ Results[1].res # LastResult
    /\ ret = LastResult

\* C4: every continuation request of one scroll_with_retry call carries the
\* token the call was given.
C4_SameTokenEveryAttempt ==
    InSwr =>
        /\ \A i \in 1..Len(Requests) : Requests[i].req = ScrollRequest(op.scroll_id)
        /\ \A i \in 1..Len(inflight) : inflight[i] = ScrollRequest(op.scroll_id)

C4_Witness ==
    /\ InSwr /\ pc = "scroll_wait"
    /\ Len(Requests) >= 2
    /\ Results[1].res.k = "err"

SearchRequestsSeen ==
    {i \in 1..Len(trace) : IsRequest(trace[i]) /\ trace[i].req.kind = "search"}

\* C10: when the query text is not JSON, search returns the parse error and
\* no search request is ever sent, in flight or recorded, in any call.
C10_MalformedQueryNoRequest ==
    from_str(query).k = "err" =>
        /\ SearchRequestsSeen = {}
        /\ \A i \in 1..Len(inflight) : inflight[i].kind # "search"
        /\ pc # "search_wait"
        /\ op.name = "search" => (Returned /\ ret = Err([kind |-> "json_syntax"]))

C10_Witness ==
    /\ query = <<P("{"), W("not"), W("json")>>
    /\ op.name = "search" /\ Returned
    /\ ret = Err([kind |-> "json_syntax"])
    /\ trace = <<>> /\ inflight = <<>>

(***************************************************************************)
(* Properties of extract_search_result (checked under ExtractSpec)         *)
(***************************************************************************)
HasKey(v, key) == v.t = "obj" /\ key \in DOMAIN v.m
Extracted == out # NoResult
BackendError == Err(BoxedStr("Error in response"))

ErrorField == Index(body, "error")
ScrollIdField == Index(body, "_scroll_id")
HitsHitsField == Index(Index(body, "hits"), "hits")
TotalObject == Index(Index(body, "hits"), "total")
ValueField == Index(TotalObject, "value")

\* An `error` field that is there and is not null, "" or {}.
NonEmptyError ==
    HasKey(body, "error") /\ ErrorField \notin {Null, Str(""), Obj(Members({}))}
ValidToken == ScrollIdField.t = "str" /\ ScrollIdField.s # ""

\* C6: a response with a non-empty `error` field of any JSON shape is
\* extracted to the backend error, whatever its other fields are.
C6_AnyErrorFieldIsBackendError ==
    (Extracted /\ NonEmptyError) => out = BackendError

\* C7: a response without an error object whose `_scroll_id` is missing or
\* empty is extracted to an error value, never to a panic or a success.
C7_MissingTokenIsErrorValue ==
    (Extracted /\ ~is_object(ErrorField) /\ ~ValidToken) => out.k = "err"

\* C8: a response without an error object, with a valid token, whose
\* `hits.hits` is absent or not an array is extracted to an error value,
\* never to a success with an empty batch and never to a panic.
C8_MissingHitsIsErrorValue ==
    (Extracted /\ ~is_object(ErrorField) /\ ValidToken /\ HitsHitsField.t # "arr")
        => out.k = "err"

\* C9: extraction defaults the total to 0 only when `hits.total.value` is
\* absent; a `value` that is present and is not a non-negative integer
\* makes extraction fail rather than succeed with total 0.
C9_MalformedTotalIsFailure ==
    (Extracted /\ HasKey(TotalObject, "value") /\ ~as_u64(ValueField).some)
        => out.k # "ok"

(***************************************************************************)
(* Requests per call (checked under Spec)                                  *)
(***************************************************************************)
RequestKinds == {Requests[i].req.kind : i \in 1..Len(Requests)}

\* C11: a search call sends at most one search request (exactly one when the
\* query parses), a scroll call sends exactly one continuation request,
\* whatever comes back; a call that has sent more than one request is a
\* scroll_with_retry call and all its requests are continuation requests.
C11_OnlyRetryLoopRepeats ==
    /\ op.name = "search" =>
           /\ Len(Requests) <= 1 /\ RequestKinds \subseteq {"search"}
           /\ from_str(query).k = "ok" => Len(Requests) = 1
    /\ op.name = "scroll" =>
           /\ Len(Requests) = 1
           /\ Requests[1].req = ScrollRequest(op.scroll_id)
    /\ Len(Requests) > 1 => (InSwr /\ RequestKinds = {"scroll"})
    /\ Len(inflight) > 0 => inflight[Len(inflight)] = Requests[Len(Requests)].req

C11_Witness ==
    /\ op.name = "search" /\ Returned
    /\ ret = BackendError
    /\ Len(Requests) = 1 /\ Len(Results) = 1

(***************************************************************************)
(* Properties of clear_scroll (checked under Spec)                         *)
(***************************************************************************)
\* C14: a clear_scroll call sends exactly one release request, for the token
\* it was given, and returns after that one round trip: Ok exactly when a
\* response with a success status came back, an error value for a transport
\* failure or any other status; it never sends again and never aborts.
C14_ReleaseOnceNoRetry ==
    op.name = "clear_scroll" =>
        /\ Len(Requests) = 1
        /\ trace[1] = Request(ClearRequest(op.scroll_id))
        /\ pc \in {"clear_wait", "idle"}
        /\ pc = "clear_wait" => (trace = <<trace[1]>> /\ inflight = <<trace[1].req>>)
        /\ pc = "idle" =>
               /\ Len(trace) = 3 /\ inflight = <<>>
               /\ trace[2] \in {Received(w) : w \in ClearOutcomes}
               /\ trace[3] = Result(ret)
               /\ ret \in {Ok("unit")} \cup {Err(e) : e \in
                      {BoxedStr("Failed to clear scroll")} \cup
                      {[kind |-> "transport", cause |-> c] : c \in TransportErrors}}
               /\ ret = Ok("unit") <=>
                      (trace[2].w.o = "status" /\ trace[2].w.code \in 200..299)

C14_Witness ==
    /\ op.name = "clear_scroll" /\ Returned
    /\ trace[2] = Received([o |-> "status", code |-> 404])
    /\ ret = Err(BoxedStr("Failed to clear scroll"))
    /\ Len(Requests) = 1

(***************************************************************************)
(* Sequencing of the attempts (checked under Spec)                         *)
(***************************************************************************)
\* C15: during scroll_with_retry at most one continuation request is in
\* flight: a request is outstanding exactly while the task awaits it, and
\* between two requests of the call the earlier one has completed with an
\* error.
C15_OneInFlight ==
    InSwr =>
        /\ Len(inflight) <= 1
        /\ Len(inflight) = 1 <=> pc = "scroll_wait"
        /\ Len(Requests) - Len(Results) = Len(inflight)
        /\ \A a, b \in RequestPositions :
               a < b => \E c \in (a + 1)..(b - 1) :
                            IsResult(trace[c]) /\ trace[c].res.k = "err"

C15_Witness ==
    /\ InSwr /\ Len(inflight) = 1
    /\ Len(Requests) = 3 /\ Len(Results) = 2
    /\ inflight[1] = ScrollRequest(op.scroll_id)

(***************************************************************************)
(* More properties of extract_search_result (checked under ExtractSpec)    *)
(***************************************************************************)
ErrorOnlyBody == Obj(Members({<<"error", Obj(Members({<<"type", Str("x")>>}))>>}))

\* C16: the error object is tested first: a response with an error object is
\* extracted to the backend error whether or not `_scroll_id` and `hits` are
\* there, the error payload is printed, no token is extracted and the
\* unwraps of the token and the hits are not reached.
C16_ErrorObjectCheckedFirst ==
    (Extracted /\ is_object(ErrorField)) =>
        /\ out = BackendError
        /\ "v" \notin DOMAIN out
        /\ trace = <<[ev |-> "print", what |-> "Error", payload |-> ErrorField]>>

C16_Witness ==
    /\ body = ErrorOnlyBody
    /\ ~HasKey(body, "_scroll_id") /\ ~HasKey(body, "hits")
    /\ out = BackendError

\* C17: a response with no error object, a string `_scroll_id`, an array
\* `hits.hits` and an unsigned integer `hits.total.value` is extracted to
\* Ok of that token, the elements of that array in their order, and that
\* total.
C17_WellFormedExtractsExactly ==
    (/\ Extracted
     /\ ~is_object(ErrorField)
     /\ ScrollIdField.t = "str"
     /\ HitsHitsField.t = "arr"
     /\ ValueField.t = "int" /\ ValueField.n >= 0)
        => /\ out.k = "ok"
           /\ out.v.scroll_id = ScrollIdField.s
           /\ Len(out.v.hits) = Len(HitsHitsField.a)
           /\ \A i \in 1..Len(HitsHitsField.a) : out.v.hits[i] = HitsHitsField.a[i]
           /\ out.v.total = ValueField.n
           /\ trace = <<>>

C17_Witness ==
    /\ Extracted
    /\ ScrollIdField = Str("s2")
    /\ HitsHitsField = Arr(<<Str("d2"), Str("d1")>>)
    /\ ValueField = Num(5)
    /\ out = Ok([scroll_id |-> "s2", hits |-> <<Str("d2"), Str("d1")>>, total |-> 5])

(***************************************************************************)
(* Negative retry budgets (checked under Spec)                             *)
(***************************************************************************)
AttemptBound == (IF op.max_retries > 0 THEN op.max_retries ELSE 0) + 1

\* C18: for every i32 budget, negative ones included, scroll_with_retry
\* against failing attempts makes at most max(max_retries, 0) + 1 attempts
\* and then returns the error; `retries` never goes below zero, never wraps
\* around, and the decrement never aborts the call.
C18_NegativeBudgetBounded ==
    InSwr =>
        /\ AllFailed => Len(Requests) <= AttemptBound
        /\ (AllFailed /\ Len(Results) = AttemptBound) => (Returned /\ ret.k = "err")
        /\ (AllFailed /\ Len(Results) >= 1) => pc # "aborted"
        /\ retries <= AttemptBound - 1

(***************************************************************************)
(* Properties of the export session (checked under SessionSpec)            *)
(***************************************************************************)
RECURSIVE Sum(_)
Sum(q) == IF q = <<>> THEN 0 ELSE Head(q) + Sum(Tail(q))

\* The session has come to its end: released, ended without a cursor, or
\* the process has aborted.
SessionOver == session.phase \in {"RELEASED", "NO_CURSOR"} \/ pc = "aborted"

\* C12: a session that has obtained a cursor never attempts the release
\* twice, and when it is over the release has been attempted exactly once,
\* after exhaustion as after failure.
C12_ReleasedExactlyOnce ==
    session.queried =>
        /\ session.releases <= 1
        /\ SessionOver => session.releases = 1

====
